---- MODULE Spec2Model ----
(***************************************************************************)
(* Model of library/scan_services.py: the scan of the host's service       *)
(* managers (service --status-all, initctl, chkconfig, systemctl) and the  *)
(* merge of their records into one report.                                 *)
(*                                                                         *)
(* Text is modelled character by character: a Python str is a sequence of  *)
(* one-character strings, so that str.split, str.join, str.replace, the    *)
(* substring test and the regular expressions are computed, not assumed.   *)
(***************************************************************************)
EXTENDS Naturals, Sequences, FiniteSets, TLC

\* ------------------------------------------------------------------ bounds

\* The largest number of lines one command prints in the model.
MaxLines == 2

\* The largest number of lines the systemctl listing prints in the model.
MaxUnits == 1

\* ------------------------------------------------- characters and strings

\* Python's \s for the characters that occur.
Space == {" ", "\t", "\n", "\r"}

\* Python's [0-9].
Digit == {"0", "1", "2", "3", "4", "5", "6", "7", "8", "9"}

LowerCase == {"a", "b", "c", "d", "e", "f", "g", "h", "i", "j", "k", "l", "m",
              "n", "o", "p", "q", "r", "s", "t", "u", "v", "w", "x", "y", "z"}

UpperCase == {"A", "B", "C", "D", "E", "F", "G", "H", "I", "J", "K", "L", "M",
              "N", "O", "P", "Q", "R", "S", "T", "U", "V", "W", "X", "Y", "Z"}

\* Python's \w.
WordChar == LowerCase \cup UpperCase \cup Digit \cup {"_"}

UpperSeq == <<"A","B","C","D","E","F","G","H","I","J","K","L","M","N","O","P","Q","R","S","T","U","V","W","X","Y","Z">>
LowerSeq == <<"a","b","c","d","e","f","g","h","i","j","k","l","m","n","o","p","q","r","s","t","u","v","w","x","y","z">>

\* str.lower() on one character.
LowerChar(c) ==
    IF c \in UpperCase
    THEN LowerSeq[CHOOSE i \in 1..26 : UpperSeq[i] = c]
    ELSE c

\* str.lower().
lower(s) == [i \in 1..Len(s) |-> LowerChar(s[i])]

\* The test `sub in s` on strings.
Contains(s, sub) ==
    \E i \in 1..(Len(s) + 1) :
        /\ i + Len(sub) - 1 <= Len(s)
        /\ SubSeq(s, i, i + Len(sub) - 1) = sub

\* s[i:].startswith(sub), i counted from 1.
StartsAt(s, i, sub) ==
    /\ i + Len(sub) - 1 <= Len(s)
    /\ SubSeq(s, i, i + Len(sub) - 1) = sub

\* The k-th smallest element of a set of numbers.
Nth(P, k) == CHOOSE p \in P : Cardinality({q \in P : q <= p}) = k

\* str.split(sep) for a one-character separator: empty fields are kept, so n
\* separators give n + 1 fields.
split_on(s, sep) ==
    LET P == {i \in 1..Len(s) : s[i] = sep}
        n == Cardinality(P)
        from(k) == IF k = 1 THEN 1 ELSE Nth(P, k - 1) + 1
        to(k) == IF k = n + 1 THEN Len(s) ELSE Nth(P, k) - 1
    IN  [k \in 1..(n + 1) |-> SubSeq(s, from(k), to(k))]

\* str.split() with no argument: runs of whitespace separate, no empty token.
split(s) ==
    LET B == {i \in 1..Len(s) : s[i] \notin Space /\ (i = 1 \/ s[i - 1] \in Space)}
        E == {i \in 1..Len(s) : s[i] \notin Space /\ (i = Len(s) \/ s[i + 1] \in Space)}
    IN  [k \in 1..Cardinality(B) |-> SubSeq(s, Nth(B, k), Nth(E, k))]

RECURSIVE join(_, _)
\* sep.join(tokens).
join(sep, tokens) ==
    IF tokens = <<>> THEN <<>>
    ELSE IF Len(tokens) = 1 THEN tokens[1]
    ELSE tokens[1] \o sep \o join(sep, Tail(tokens))

\* str.replace(ch, "") for a one-character ch.
remove(s, ch) == SelectSeq(s, LAMBDA c : c # ch)

\* The index after the longest run of characters of class cls starting at i.
RECURSIVE RunEnd(_, _, _)
RunEnd(s, i, cls) ==
    IF i <= Len(s) /\ s[i] \in cls THEN RunEnd(s, i + 1, cls) ELSE i

\* ------------------------------------------------------ regular expressions

Max(S) == CHOOSE x \in S : \A y \in S : y <= x
Min(S) == CHOOSE x \in S : \A y \in S : x <= y

\* The Upstart pattern from its \s after the name to the end, tried with that
\* \s at index j:  \s(?P<goal>\w+)\/(?P<state>\w+)(\,\sprocess\s(?P<pid>[0-9]+))?\s*$
\* \w+ and [0-9]+ are greedy and what follows each cannot start with one of
\* their characters, so each takes its longest run.
UpstartTail(s, j) ==
    LET g1 == j + 1
        g2 == RunEnd(s, g1, WordChar)
        s1 == g2 + 1
        s2 == RunEnd(s, s1, WordChar)
        p1 == s2 + 10
        p2 == RunEnd(s, p1, Digit)
        head == /\ j >= 1 /\ j <= Len(s) /\ s[j] \in Space
                /\ g2 > g1 /\ g2 <= Len(s) /\ s[g2] = "/"
                /\ s2 > s1
        group == /\ head
                 /\ s2 + 9 <= Len(s)
                 /\ s[s2] = ","
                 /\ s[s2 + 1] \in Space
                 /\ SubSeq(s, s2 + 2, s2 + 8) = <<"p","r","o","c","e","s","s">>
                 /\ s[s2 + 9] \in Space
                 /\ p2 > p1
                 /\ RunEnd(s, p2, Space) = Len(s) + 1
        plain == head /\ RunEnd(s, s2, Space) = Len(s) + 1
    IN  IF group
        THEN [ok |-> TRUE, goal |-> SubSeq(s, g1, g2 - 1), state |-> SubSeq(s, s1, s2 - 1),
              has_pid |-> TRUE, pid |-> SubSeq(s, p1, p2 - 1)]
        ELSE IF plain
        THEN [ok |-> TRUE, goal |-> SubSeq(s, g1, g2 - 1), state |-> SubSeq(s, s1, s2 - 1),
              has_pid |-> FALSE, pid |-> <<>>]
        ELSE [ok |-> FALSE, goal |-> <<>>, state |-> <<>>, has_pid |-> FALSE, pid |-> <<>>]

\* p.match(line) for the Upstart pattern
\*   ^\s?(?P<name>.*)\s(?P<goal>\w+)\/(?P<state>\w+)(\,\sprocess\s(?P<pid>[0-9]+))?\s*$
\* \s? takes a leading whitespace character when the rest can still match, and
\* the greedy name ends at the last index where the rest matches.
upstart_match(line) ==
    LET J == {j \in 1..Len(line) : UpstartTail(line, j).ok}
        first == IF line # <<>> /\ line[1] \in Space /\ J \ {1} # {} THEN 2 ELSE 1
        j == Max(J)
        t == UpstartTail(line, j)
    IN  IF J = {}
        THEN [matched |-> FALSE, name |-> <<>>, goal |-> <<>>, state |-> <<>>,
              has_pid |-> FALSE, pid |-> <<>>]
        ELSE [matched |-> TRUE, name |-> SubSeq(line, first, j - 1), goal |-> t.goal,
              state |-> t.state, has_pid |-> t.has_pid, pid |-> t.pid]

\* The number of runlevel columns of the chkconfig pattern (rl0 .. rl6).
Runlevels == 7

\* n repetitions of \s+[0-9]:(on|off) tried at index i: whether they match and
\* the captured values in order.
RECURSIVE RunlevelsAt(_, _, _)
RunlevelsAt(s, i, n) ==
    IF n = 0 THEN [ok |-> TRUE, rl |-> <<>>]
    ELSE
        LET d == RunEnd(s, i, Space)
            value == IF StartsAt(s, d + 2, <<"o","n">>) THEN <<"o","n">>
                     ELSE IF StartsAt(s, d + 2, <<"o","f","f">>) THEN <<"o","f","f">>
                     ELSE <<>>
            rest == RunlevelsAt(s, d + 2 + Len(value), n - 1)
        IN  IF d > i /\ d + 1 <= Len(s) /\ s[d] \in Digit /\ s[d + 1] = ":"
               /\ value # <<>> /\ rest.ok
            THEN [ok |-> TRUE, rl |-> <<value>> \o rest.rl]
            ELSE [ok |-> FALSE, rl |-> <<>>]

\* p.match(line) for the chkconfig pattern
\*   (?P<service>.*?)\s+[0-9]:(?P<rl0>on|off) ... \s+[0-9]:(?P<rl6>on|off)
\* The lazy service name is the shortest prefix after which the columns match;
\* the pattern is not anchored at the end of the line.
chkconfig_match(line) ==
    LET K == {k \in 0..Len(line) : RunlevelsAt(line, k + 1, Runlevels).ok}
        k == Min(K)
    IN  IF K = {}
        THEN [matched |-> FALSE, service |-> <<>>, rl |-> <<>>]
        ELSE [matched |-> TRUE, service |-> SubSeq(line, 1, k),
              rl |-> RunlevelsAt(line, k + 1, Runlevels).rl]

\* Whether p_simple.match(line) for  (?P<service>.*?)\s+(?P<rl0>on|off)
simple_match(line) ==
    \E i \in 1..Len(line) :
        /\ line[i] \in Space
        /\ \/ StartsAt(line, RunEnd(line, i, Space), <<"o","n">>)
           \/ StartsAt(line, RunEnd(line, i, Space), <<"o","f","f">>)

\* Whether a pattern matches any line (the match_any loops).
match_any_primary(lines) == \E i \in 1..Len(lines) : chkconfig_match(lines[i]).matched
match_any_simple(lines) == \E i \in 1..Len(lines) : simple_match(lines[i])

\* ------------------------------------------------------------ the host

\* What `service --status-all 2>&1 | grep -E "\[ (\+|\-) \]"` can print: every
\* line holds "[ + ]" or "[ - ]" (the grep keeps no other line).
StatusAllLines == { <<" ","["," ","+"," ","]"," "," ","s","s","h">>, <<" ","["," ","-"," ","]"," "," ","m","y"," "," ","s","v","c">>, <<" ","["," ","+"," ","]">> }

\* What `initctl list` can print.
InitctlLines == { <<"s","s","h"," ","s","t","a","r","t","/","r","u","n","n","i","n","g",","," ","p","r","o","c","e","s","s"," ","1","2","3","4">>, <<"m","y"," ","s","v","c"," ","s","t","o","p","/","w","a","i","t","i","n","g","\r">>,
                  <<"b","a","d"," ","l","i","n","e">> }

\* What a chkconfig listing can print: runlevel 3 on, runlevel 3 on, the first
\* service again with runlevel 3 off, and the two-column format.
ChkconfigLines == { <<"s","s","h","d"," "," ","0",":","o","f","f"," ","1",":","o","f","f"," ","2",":","o","f","f"," ","3",":","o","n"," ","4",":","o","f","f"," ","5",":","o","n"," ","6",":","o","f","f">>,
                    <<"n","t","p","d"," "," ","0",":","o","f","f"," ","1",":","o","f","f"," ","2",":","o","f","f"," ","3",":","o","n"," ","4",":","o","f","f"," ","5",":","o","n"," ","6",":","o","f","f">>,
                    <<"s","s","h","d"," "," ","0",":","o","f","f"," ","1",":","o","n"," ","2",":","o","n"," ","3",":","o","f","f"," ","4",":","o","n"," ","5",":","o","n"," ","6",":","o","f","f">>,
                    <<"s","s","h","d"," "," ","o","n">> }

\* What chkconfig can print on stderr.
ChkconfigErrs == { <<>>, <<"u","s","a","g","e",":"," ","c","h","k","c","o","n","f","i","g"," ","-","-","l","i","s","t">> }

\* What `systemctl list-unit-files --type=service | tail -n +2 | head -n -2`
\* can print.
SystemctlLines == { <<"s","s","h","d"," ","e","n","a","b","l","e","d">>, <<"s","s","h"," ","d","i","s","a","b","l","e","d">> }

\* How `service <name> status` can end: exit code and stderr.
ProbeResults == { [rc |-> 0, stderr |-> <<>>],
                  [rc |-> 3, stderr |-> <<>>],
                  [rc |-> 1, stderr |-> <<"j","o","e"," ","i","s"," ","n","o","t"," ","i","n"," ","s","u","d","o","e","r","s">>],
                  [rc |-> 1, stderr |-> <<"P","e","r","m","i","s","s","i","o","n"," ","d","e","n","i","e","d">>],
                  [rc |-> 4, stderr |-> <<"m","u","s","t"," ","b","e"," ","r","o","o","t">>] }

\* What /proc/1/comm can be: unreadable, or readable with this text.
CommFiles == { [readable |-> FALSE, text |-> <<>>],
               [readable |-> TRUE, text |-> <<"s","y","s","t","e","m","d","\n">>],
               [readable |-> TRUE, text |-> <<"i","n","i","t","\n">>] }

Binaries == {"service", "initctl", "chkconfig", "systemctl"}

\* The text of a command that prints these lines, each ended by a newline.
RECURSIVE Text(_)
Text(ls) == IF ls = <<>> THEN <<>> ELSE Head(ls) \o <<"\n">> \o Text(Tail(ls))

\* The outputs of at most n lines drawn from a pool.
OutputsUpTo(pool, n) == { Text(ls) : ls \in UNION { [1..k -> pool] : k \in 0..n } }
Outputs(pool) == OutputsUpTo(pool, MaxLines)

\* ------------------------------------------------------------ the state

VARIABLES
    bins,               \* host: the binaries get_bin_path resolves
    comm,               \* host: /proc/1/comm
    pc,                 \* the statement main() is at
    svc_module,         \* main: index in service_modules of the running backend
    all_services,       \* main: the merged dict
    incomplete_warning, \* main: the global warning flag
    svc,                \* main: what gather_services returned
    results,            \* main: the report handed to exit_json
    self_incomplete,    \* svcmod.incomplete_warning of the running backend
    services,           \* gather_services: its dict
    lines,              \* gather_services: the lines its for loop has yet to see
    rc, stdout, stderr, \* gather_services: the last run_command result
    cmds,               \* history: every command run_command was given
    listing,            \* history: the stdout of the listing the running backend last ran
    produced,           \* history: per parser, the record it last stored under each name
    seen                \* history: every matched chkconfig line, with its probe's result

vars == <<bins, comm, pc, svc_module, all_services, incomplete_warning, svc, results,
          self_incomplete, services, lines, rc, stdout, stderr, cmds, listing,
          produced, seen>>

host == <<bins, comm>>
locals == <<services, lines, rc, stdout, stderr, listing>>
main_vars == <<svc_module, all_services, incomplete_warning, svc, results>>

\* Python's None for the value gather_services returns, and a returned dict.
None == [some |-> FALSE, map |-> <<>>]
Some(d) == [some |-> TRUE, map |-> d]

\* d[k] = v on a dict.
Put(d, k, v) == [x \in (DOMAIN d) \cup {k} |-> IF x = k THEN v ELSE d[x]]

\* Fault variant of dict_ior: the value already held wins on a shared key.
dict_ior_keeping_first(a, b) ==
    [x \in (DOMAIN a) \cup (DOMAIN b) |-> IF x \in DOMAIN a THEN a[x] ELSE b[x]]

\* a |= b on dicts: b's value wins on a shared key.
dict_ior(a, b) ==
    [x \in (DOMAIN a) \cup (DOMAIN b) |-> IF x \in DOMAIN b THEN b[x] ELSE a[x]]

\* module.get_bin_path(name) is not None
service_path == "service" \in bins
initctl_path == "initctl" \in bins
chkconfig_path == "chkconfig" \in bins
systemctl_path == "systemctl" \in bins

Cmd(c, a) == [cmd |-> c, arg |-> a]

NoProduced == [sysv |-> <<>>, upstart |-> <<>>, chkconfig |-> <<>>, systemd |-> <<>>]

Init ==
    /\ bins \in SUBSET Binaries
    /\ comm \in CommFiles
    /\ pc = "ServiceScanService"
    /\ svc_module = 1
    /\ all_services = <<>>
    /\ incomplete_warning = FALSE
    /\ svc = None
    /\ results = <<>>
    /\ self_incomplete = FALSE
    /\ services = <<>>
    /\ lines = <<>>
    /\ rc = 0
    /\ stdout = <<>>
    /\ stderr = <<>>
    /\ cmds = <<>>
    /\ listing = <<>>
    /\ produced = NoProduced
    /\ seen = <<>>

\* ------------------------------------------------ ServiceScanService

\* gather_services up to the sysvinit block: services = {} and the three
\* get_bin_path calls; without a service binary it returns None.
ServiceScanService_gather_services ==
    /\ pc = "ServiceScanService"
    /\ services' = <<>>
    /\ IF ~service_path
       THEN svc' = None /\ pc' = "merge"
       ELSE svc' = svc /\ pc' = "sysvinit"
    /\ UNCHANGED <<host, svc_module, all_services, incomplete_warning, results,
                   self_incomplete, lines, rc, stdout, stderr, cmds, listing,
                   produced, seen>>

\* Fault variant of sysv_record: the name starts one token early.
sysv_record_from_bracket(line_data) ==
    [name |-> join(<<" ">>, SubSeq(line_data, 3, Len(line_data))),
     state |-> IF line_data[2] = <<"+">> THEN <<"r","u","n","n","i","n","g">> ELSE <<"s","t","o","p","p","e","d">>,
     source |-> "sysv"]

\* The record the sysvinit loop stores for a line of at least 4 tokens.
sysv_record(line_data) ==
    [name |-> join(<<" ">>, SubSeq(line_data, 4, Len(line_data))),
     state |-> IF line_data[2] = <<"+">> THEN <<"r","u","n","n","i","n","g">> ELSE <<"s","t","o","p","p","e","d">>,
     source |-> "sysv"]

\* The sysvinit block's condition and its run_command.
sysvinit_run ==
    /\ pc = "sysvinit"
    /\ IF service_path /\ ~chkconfig_path
       THEN \E out \in Outputs(StatusAllLines) :
               /\ rc' = 0 /\ stdout' = out /\ stderr' = <<>>
               /\ listing' = out
               /\ lines' = split_on(out, "\n")
               /\ cmds' = Append(cmds, Cmd("service --status-all", <<>>))
               /\ pc' = "sysvinit_loop"
       ELSE /\ pc' = "upstart"
            /\ UNCHANGED <<lines, rc, stdout, stderr, cmds, listing>>
    /\ UNCHANGED <<host, main_vars, self_incomplete, services, produced, seen>>

\* One iteration of the sysvinit loop, or its end.
sysvinit_line ==
    /\ pc = "sysvinit_loop"
    /\ IF lines = <<>>
       THEN pc' = "upstart" /\ UNCHANGED <<lines, services, produced>>
       ELSE LET line_data == split(Head(lines))
                rec == sysv_record(line_data)
            IN  /\ lines' = Tail(lines)
                /\ pc' = "sysvinit_loop"
                /\ IF Len(line_data) < 4
                   THEN UNCHANGED <<services, produced>>
                   ELSE /\ services' = Put(services, rec.name, rec)
                        /\ produced' = [produced EXCEPT !.sysv = Put(@, rec.name, rec)]
    /\ UNCHANGED <<host, main_vars, self_incomplete, rc, stdout, stderr, cmds,
                   listing, seen>>

\* The payload the Upstart loop stores for a match.
upstart_payload(m) ==
    [name |-> m.name, state |-> m.state, goal |-> m.goal, source |-> "upstart"]

\* Fault variant of upstart_applies: chkconfig's presence is not looked at.
upstart_applies_despite_chkconfig == initctl_path

\* Whether the Upstart block runs.
upstart_applies == initctl_path /\ ~chkconfig_path

\* Whether the chkconfig block (the elif) runs.
chkconfig_applies == ~upstart_applies /\ chkconfig_path

\* The Upstart block's condition and run_command, or the way to the chkconfig
\* block, or to the return.
upstart_run ==
    /\ pc = "upstart"
    /\ IF upstart_applies
       THEN \E out \in Outputs(InitctlLines) :
               /\ rc' = 0 /\ stdout' = out /\ stderr' = <<>>
               /\ listing' = out
               /\ lines' = split_on(remove(out, "\r"), "\n")
               /\ cmds' = Append(cmds, Cmd("initctl list", <<>>))
               /\ pc' = "upstart_loop"
       ELSE /\ pc' = IF chkconfig_applies THEN "chkconfig" ELSE "return"
            /\ UNCHANGED <<lines, rc, stdout, stderr, cmds, listing>>
    /\ UNCHANGED <<host, main_vars, self_incomplete, services, produced, seen>>

\* One iteration of the Upstart loop, or its end.
upstart_line ==
    /\ pc = "upstart_loop"
    /\ IF lines = <<>>
       THEN pc' = "return" /\ UNCHANGED <<lines, services, produced>>
       ELSE LET m == upstart_match(Head(lines))
                payload == upstart_payload(m)
            IN  /\ lines' = Tail(lines)
                /\ pc' = "upstart_loop"
                /\ IF ~m.matched
                   THEN UNCHANGED <<services, produced>>
                   ELSE /\ services' = Put(services, m.name, payload)
                        /\ produced' = [produced EXCEPT !.upstart = Put(@, m.name, payload)]
    /\ UNCHANGED <<host, main_vars, self_incomplete, rc, stdout, stderr, cmds,
                   listing, seen>>

\* The first chkconfig listing, run with no flag.
chkconfig_run ==
    /\ pc = "chkconfig"
    /\ \E out \in Outputs(ChkconfigLines), err \in ChkconfigErrs :
          /\ rc' = 0 /\ stdout' = out /\ stderr' = err
          /\ listing' = out
    /\ cmds' = Append(cmds, Cmd("chkconfig", <<>>))
    /\ pc' = "chkconfig_fallback"
    /\ UNCHANGED <<host, main_vars, self_incomplete, services, lines, produced, seen>>

\* Fault variant of chkconfig_rerun: the flags of the two special cases are
\* exchanged.
chkconfig_rerun_flags_exchanged(out, err) ==
    IF match_any_primary(split_on(out, "\n")) THEN ""
    ELSE IF match_any_simple(split_on(out, "\n")) THEN "chkconfig --list"
    ELSE IF Contains(err, <<"-","-","l","i","s","t">>) THEN "chkconfig -l --allservices"
    ELSE ""

\* Fault variant of chkconfig_rerun: the stderr test is made even when the
\* primary pattern matched.
chkconfig_rerun_on_any_usage(out, err) ==
    IF ~match_any_primary(split_on(out, "\n")) /\ match_any_simple(split_on(out, "\n"))
    THEN "chkconfig -l --allservices"
    ELSE IF Contains(err, <<"-","-","l","i","s","t">>) THEN "chkconfig --list"
    ELSE ""

\* Which listing the special-case check runs again: "-l --allservices",
\* "--list", or "" for none.
chkconfig_rerun(out, err) ==
    IF match_any_primary(split_on(out, "\n")) THEN ""
    ELSE IF match_any_simple(split_on(out, "\n")) THEN "chkconfig -l --allservices"
    ELSE IF Contains(err, <<"-","-","l","i","s","t">>) THEN "chkconfig --list"
    ELSE ""

\* The check for the special cases where stdout does not fit the pattern, with
\* the listing it runs again, up to the split of the stdout the loop parses.
chkconfig_fallback ==
    /\ pc = "chkconfig_fallback"
    /\ LET again == chkconfig_rerun(stdout, stderr)
       IN  IF again # ""
           THEN \E out \in Outputs(ChkconfigLines), err \in ChkconfigErrs :
                   /\ rc' = 0 /\ stdout' = out /\ stderr' = err
                   /\ listing' = out
                   /\ lines' = split_on(out, "\n")
                   /\ cmds' = Append(cmds, Cmd(again, <<>>))
           ELSE /\ lines' = split_on(stdout, "\n")
                /\ UNCHANGED <<rc, stdout, stderr, cmds, listing>>
    /\ pc' = "chkconfig_loop"
    /\ UNCHANGED <<host, main_vars, self_incomplete, services, produced, seen>>

\* Fault variant of probe_needed: runlevel 2 is read in place of runlevel 3.
probe_needed_runlevel_2(m) == m.rl[3] = <<"o","n">>

\* Whether the status probe runs for a matched line: m['rl3'] == 'on'.
probe_needed(m) == m.rl[4] = <<"o","n">>

\* Whether stderr of a failed probe shows a lack of privilege.
permission_denied(err) ==
    \/ Contains(err, <<"r","o","o","t">>)
    \/ Contains(lower(err), <<"p","e","r","m","i","s","s","i","o","n">>)
    \/ Contains(lower(err), <<"n","o","t"," ","i","n"," ","s","u","d","o","e","r","s">>)

\* Fault variant of probe_outcome: a probe that lacks privilege counts as
\* stopped.
probe_outcome_guessing(code, err) ==
    IF code = 0 THEN "running" ELSE "stopped"

\* What a probe's result makes of the service: "running", "denied" (the
\* service is skipped and the warning raised) or "stopped".
probe_outcome(code, err) ==
    IF code = 0 THEN "running"
    ELSE IF permission_denied(err) THEN "denied"
    ELSE "stopped"

\* The record the chkconfig loop stores.
chkconfig_record(name, state) == [name |-> name, state |-> state, source |-> "sysv"]

\* One iteration of the chkconfig loop, with its status probe, or its end.
chkconfig_line ==
    /\ pc = "chkconfig_loop"
    /\ IF lines = <<>>
       THEN /\ pc' = "return"
            /\ UNCHANGED <<lines, services, produced, self_incomplete, rc, stdout,
                           stderr, cmds, seen>>
       ELSE LET m == chkconfig_match(Head(lines))
                stopped == chkconfig_record(m.service, <<"s","t","o","p","p","e","d">>)
                running == chkconfig_record(m.service, <<"r","u","n","n","i","n","g">>)
            IN  /\ lines' = Tail(lines)
                /\ pc' = "chkconfig_loop"
                /\ IF ~m.matched
                   THEN UNCHANGED <<services, produced, self_incomplete, rc, stdout,
                                    stderr, cmds, seen>>
                   ELSE IF ~probe_needed(m)
                   THEN /\ services' = Put(services, m.service, stopped)
                        /\ produced' = [produced EXCEPT !.chkconfig = Put(@, m.service, stopped)]
                        /\ seen' = Append(seen, [name |-> m.service, probed |-> FALSE,
                                                 rc |-> 0, stderr |-> <<>>])
                        /\ UNCHANGED <<self_incomplete, rc, stdout, stderr, cmds>>
                   ELSE \E r \in ProbeResults :
                        /\ rc' = r.rc /\ stdout' = <<>> /\ stderr' = r.stderr
                        /\ cmds' = Append(cmds, Cmd("service status", m.service))
                        /\ seen' = Append(seen, [name |-> m.service, probed |-> TRUE,
                                                 rc |-> r.rc, stderr |-> r.stderr])
                        /\ LET outcome == probe_outcome(r.rc, r.stderr)
                               rec == IF outcome = "running" THEN running ELSE stopped
                           IN  IF outcome = "denied"
                               THEN /\ self_incomplete' = TRUE
                                    /\ UNCHANGED <<services, produced>>
                               ELSE /\ services' = Put(services, m.service, rec)
                                    /\ produced' = [produced EXCEPT
                                                      !.chkconfig = Put(@, m.service, rec)]
                                    /\ UNCHANGED self_incomplete
    /\ UNCHANGED <<host, main_vars, listing>>

\* return services, which ends the frame of gather_services.
ServiceScanService_return ==
    /\ pc = "return"
    /\ svc' = Some(services)
    /\ pc' = "merge"
    /\ services' = <<>> /\ lines' = <<>>
    /\ rc' = 0 /\ stdout' = <<>> /\ stderr' = <<>> /\ listing' = <<>>
    /\ UNCHANGED <<host, svc_module, all_services, incomplete_warning, results,
                   self_incomplete, cmds, produced, seen>>

\* ------------------------------------------------ SystemctlScanService

\* Whether /proc/1/comm opens and one of its lines contains "systemd".
systemd_enabled ==
    /\ comm.readable
    /\ \E i \in 1..Len(split_on(comm.text, "\n")) :
          Contains(split_on(comm.text, "\n")[i], <<"s","y","s","t","e","m","d">>)

\* Fault variant of systemd_applies: the systemctl path is not checked.
systemd_applies_without_path == systemd_enabled

\* Whether the systemd backend gets as far as its listing.
systemd_applies == systemd_enabled /\ systemctl_path

\* gather_services up to its loop: None unless systemd is the init process and
\* systemctl resolves, else the unit-file listing.
SystemctlScanService_gather_services ==
    /\ pc = "SystemctlScanService"
    /\ services' = <<>>
    /\ IF ~systemd_applies
       THEN /\ svc' = None /\ pc' = "merge"
            /\ UNCHANGED <<lines, rc, stdout, stderr, cmds, listing>>
       ELSE \E out \in OutputsUpTo(SystemctlLines, MaxUnits) :
               /\ rc' = 0 /\ stdout' = out /\ stderr' = <<>>
               /\ listing' = out
               /\ lines' = split_on(out, "\n")
               /\ cmds' = Append(cmds, Cmd("systemctl list-unit-files", <<>>))
               /\ svc' = svc
               /\ pc' = "systemctl_loop"
    /\ UNCHANGED <<host, svc_module, all_services, incomplete_warning, results,
                   self_incomplete, produced, seen>>

\* The record the systemd loop stores for a line of exactly 2 tokens.
systemd_record(line_data) ==
    [name |-> line_data[1],
     state |-> IF line_data[2] = <<"e","n","a","b","l","e","d">> THEN <<"r","u","n","n","i","n","g">> ELSE <<"s","t","o","p","p","e","d">>,
     source |-> "systemd"]

\* One iteration of the systemd loop, or its end.
systemctl_line ==
    /\ pc = "systemctl_loop"
    /\ IF lines = <<>>
       THEN pc' = "systemctl_return" /\ UNCHANGED <<lines, services, produced>>
       ELSE LET line_data == split(Head(lines))
                rec == systemd_record(line_data)
            IN  /\ lines' = Tail(lines)
                /\ pc' = "systemctl_loop"
                /\ IF Len(line_data) # 2
                   THEN UNCHANGED <<services, produced>>
                   ELSE /\ services' = Put(services, rec.name, rec)
                        /\ produced' = [produced EXCEPT !.systemd = Put(@, rec.name, rec)]
    /\ UNCHANGED <<host, main_vars, self_incomplete, rc, stdout, stderr, cmds,
                   listing, seen>>

\* return services, which ends the frame of gather_services.
SystemctlScanService_return ==
    /\ pc = "systemctl_return"
    /\ svc' = Some(services)
    /\ pc' = "merge"
    /\ services' = <<>> /\ lines' = <<>>
    /\ rc' = 0 /\ stdout' = <<>> /\ stderr' = <<>> /\ listing' = <<>>
    /\ UNCHANGED <<host, svc_module, all_services, incomplete_warning, results,
                   self_incomplete, cmds, produced, seen>>

\* ---------------------------------------------------------------- main

FailMsg == "Failed to find any services. Sometimes this is due to insufficient privileges."
WarnMsg == "WARNING: Could not find status for all services. Sometimes this is due to insufficient privileges."

\* The test main makes before it merges what a backend returned.
is_not_none(v) == v.some

\* The body of main's loop after gather_services returned: the merge into
\* all_services, the fold of the backend's warning flag, and the next backend
\* (built with incomplete_warning False) or the end of the loop. `|=` with None
\* on its right raises TypeError.
main_merge ==
    /\ pc = "merge"
    /\ IF is_not_none(svc)
       THEN IF svc.some
            THEN /\ all_services' = dict_ior(all_services, svc.map)
                 /\ incomplete_warning' = (incomplete_warning \/ self_incomplete)
                 /\ pc' = IF svc_module = 1 THEN "SystemctlScanService" ELSE "report"
            ELSE /\ pc' = "TypeError"
                 /\ UNCHANGED <<all_services, incomplete_warning>>
       ELSE /\ pc' = IF svc_module = 1 THEN "SystemctlScanService" ELSE "report"
            /\ UNCHANGED <<all_services, incomplete_warning>>
    /\ svc_module' = IF pc' = "SystemctlScanService" THEN 2 ELSE svc_module
    /\ self_incomplete' = IF pc' = "SystemctlScanService" THEN FALSE ELSE self_incomplete
    /\ UNCHANGED <<host, svc, results, locals, cmds, produced, seen>>

\* Fault variant of nothing_found: the last backend's dict is tested in place
\* of the merged one.
nothing_found_in_last(d) == ~svc.some \/ DOMAIN svc.map = {}

\* Whether main reports the scan as skipped: `not all_services`.
nothing_found(d) == DOMAIN d = {}

\* The report main hands to exit_json.
main_report ==
    /\ pc = "report"
    /\ results' = IF nothing_found(all_services)
                  THEN [skipped |-> TRUE, msg |-> FailMsg]
                  ELSE IF incomplete_warning
                  THEN [ansible_facts |-> [services |-> all_services], msg |-> WarnMsg]
                  ELSE [ansible_facts |-> [services |-> all_services]]
    /\ pc' = "done"
    /\ UNCHANGED <<host, svc_module, all_services, incomplete_warning, svc,
                   self_incomplete, locals, cmds, produced, seen>>

Next ==
    \/ ServiceScanService_gather_services
    \/ sysvinit_run
    \/ sysvinit_line
    \/ upstart_run
    \/ upstart_line
    \/ chkconfig_run
    \/ chkconfig_fallback
    \/ chkconfig_line
    \/ ServiceScanService_return
    \/ SystemctlScanService_gather_services
    \/ systemctl_line
    \/ SystemctlScanService_return
    \/ main_merge
    \/ main_report

Spec == Init /\ [][Next]_vars

\* ------------------------------------------------------------ properties

Running == <<"r","u","n","n","i","n","g">>
Stopped == <<"s","t","o","p","p","e","d">>

\* Whether a command was run.
Ran(c) == \E i \in DOMAIN cmds : cmds[i].cmd = c

\* How many times a command was run.
Times(c) == Cardinality({i \in DOMAIN cmds : cmds[i].cmd = c})

\* The privilege markers of a probe's stderr, as the specification lists them.
HasMarker(err) ==
    \/ Contains(err, <<"r","o","o","t">>)
    \/ \E i \in 1..Len(err) :
          \/ StartsAt(lower(err), i, <<"p","e","r","m","i","s","s","i","o","n">>)
          \/ StartsAt(lower(err), i, <<"n","o","t"," ","i","n"," ","s","u","d","o","e","r","s">>)

\* A matched chkconfig line whose probe failed for lack of privilege.
Denied(e) == e.probed /\ e.rc # 0 /\ HasMarker(e.stderr)

\* The record a matched chkconfig line that was not denied stands for.
OwnRecord(e) ==
    [name |-> e.name,
     state |-> IF e.probed /\ e.rc = 0 THEN Running ELSE Stopped,
     source |-> "sysv"]

\* C1: every line of the `initctl list` output that matches the Upstart
\* grammar is stored under its name with source upstart, the captured goal,
\* the captured state verbatim and, when the line carries ", process <pid>", a
\* pid field equal to the captured pid.
C1_UpstartRecordCarriesPid ==
    [][ (pc = "upstart_loop" /\ lines # <<>> /\ upstart_match(Head(lines)).matched) =>
          LET m == upstart_match(Head(lines))
          IN  /\ m.name \in DOMAIN services'
              /\ services'[m.name].name = m.name
              /\ services'[m.name].source = "upstart"
              /\ services'[m.name].goal = m.goal
              /\ services'[m.name].state = m.state
              /\ m.has_pid => /\ "pid" \in DOMAIN services'[m.name]
                              /\ services'[m.name].pid = m.pid ]_vars

\* C2 as stated: in every scan in which a chkconfig binary resolves, the
\* chkconfig listing is run, whatever the other binaries, and `initctl list`
\* is never run.
C2_ChkconfigAlwaysApplies ==
    (pc = "done" /\ chkconfig_path) => (Ran("chkconfig") /\ ~Ran("initctl list"))

\* C2 amended: in every scan in which a chkconfig binary resolves, `initctl
\* list` is never run; and when the service binary resolves too, whatever
\* initctl's presence, the chkconfig listing is the first command run and every
\* line of the final listing that matches is parsed into a record or skipped
\* as denied.
C2_ChkconfigAppliesWithService ==
    chkconfig_path =>
        /\ ~Ran("initctl list")
        /\ (service_path /\ pc \notin {"ServiceScanService", "sysvinit", "upstart", "chkconfig"})
              => (cmds # <<>> /\ cmds[1] = Cmd("chkconfig", <<>>))
        /\ (service_path /\ pc = "return")
              => \A i \in DOMAIN split_on(listing, "\n") :
                    LET m == chkconfig_match(split_on(listing, "\n")[i])
                    IN  m.matched =>
                           \/ m.service \in DOMAIN services
                           \/ \E j \in DOMAIN seen : seen[j].name = m.service /\ Denied(seen[j])

\* C2 witness: a finished scan with chkconfig, service and initctl all present
\* in which the chkconfig parser stored a record.
C2_Witness ==
    /\ pc = "done"
    /\ {"chkconfig", "service", "initctl"} \subseteq bins
    /\ DOMAIN produced.chkconfig # {}

\* C3 as stated: a service whose probe is denied is absent from the final map,
\* the report carries the WARNING message, and every sibling whose probe is
\* clean is in the map with the state its own probe gives.
C3_DeniedServiceExcludedAndWarned ==
    pc = "done" =>
        \A i \in DOMAIN seen :
            Denied(seen[i]) =>
                /\ seen[i].name \notin DOMAIN all_services
                /\ "msg" \in DOMAIN results /\ results.msg = WarnMsg
                /\ "ansible_facts" \in DOMAIN results
                /\ \A j \in DOMAIN seen :
                      (seen[j].probed /\ ~Denied(seen[j])) =>
                          /\ seen[j].name \in DOMAIN all_services
                          /\ all_services[seen[j].name] = OwnRecord(seen[j])

\* Whether no later line of the listing, and no systemd unit, stored a record
\* under the name of the matched line at index j.
Unreplaced(j) ==
    /\ seen[j].name \notin DOMAIN produced.systemd
    /\ \A k \in DOMAIN seen : (k > j /\ seen[k].name = seen[j].name) => Denied(seen[k])

\* C3 amended: a denied probe stores no record (its service is absent from the
\* final map unless another line of the same name or the systemd backend
\* stores one) and raises the warning flag; the report carries the WARNING
\* message when the final map is not empty and is the Skipped report when it
\* is; every sibling whose probe is clean is in the final map, with the state
\* its own probe gives unless a later line of the same name or the systemd
\* backend replaces the record.
C3_DeniedProbeSkipsAndWarns ==
    pc = "done" =>
        \A i \in DOMAIN seen :
            Denied(seen[i]) =>
                /\ incomplete_warning
                /\ ( /\ \A k \in DOMAIN seen : seen[k].name = seen[i].name => Denied(seen[k])
                     /\ seen[i].name \notin DOMAIN produced.systemd )
                   => seen[i].name \notin DOMAIN all_services
                /\ IF DOMAIN all_services = {}
                   THEN results = [skipped |-> TRUE, msg |-> FailMsg]
                   ELSE results = [ansible_facts |-> [services |-> all_services],
                                   msg |-> WarnMsg]
                /\ \A j \in DOMAIN seen :
                      (seen[j].probed /\ ~Denied(seen[j])) =>
                          /\ seen[j].name \in DOMAIN all_services
                          /\ Unreplaced(j) => all_services[seen[j].name] = OwnRecord(seen[j])

\* C3 witness: a finished scan with a denied probe ("not in sudoers"), a
\* sibling of another name probed clean, and the warning in the report.
C3_Witness ==
    /\ pc = "done"
    /\ "msg" \in DOMAIN results
    /\ \E i, j \in DOMAIN seen :
          /\ Denied(seen[i]) /\ Contains(seen[i].stderr, <<"n","o","t"," ","i","n"," ","s","u","d","o","e","r","s">>)
          /\ seen[j].probed /\ seen[j].rc = 0 /\ seen[j].name # seen[i].name
          /\ seen[i].name \notin DOMAIN all_services
          /\ all_services[seen[j].name].state = Running

\* C4: the final registry holds, for every name, the whole record of the
\* backend that stored one last in the order sysv, upstart or chkconfig,
\* systemd, and holds no other name.
C4_LaterBackendWins ==
    pc = "done" =>
        /\ DOMAIN all_services = (DOMAIN produced.sysv) \cup (DOMAIN produced.upstart)
                                 \cup (DOMAIN produced.chkconfig) \cup (DOMAIN produced.systemd)
        /\ \A n \in DOMAIN all_services :
              all_services[n] =
                  IF n \in DOMAIN produced.systemd THEN produced.systemd[n]
                  ELSE IF n \in DOMAIN produced.upstart THEN produced.upstart[n]
                  ELSE IF n \in DOMAIN produced.chkconfig THEN produced.chkconfig[n]
                  ELSE produced.sysv[n]

\* C4 witness: a finished scan in which the sysv, Upstart and systemd parsers
\* each stored a record under one name.
C4_Witness ==
    /\ pc = "done"
    /\ \E n \in DOMAIN produced.sysv :
          /\ n \in DOMAIN produced.upstart
          /\ n \in DOMAIN produced.systemd
          /\ produced.upstart[n] # produced.systemd[n]

\* The statements of main and of the two gather_services a scan passes
\* through; each has a step to take but "done", the return of exit_json.
Labels == {"ServiceScanService", "sysvinit", "sysvinit_loop", "upstart", "upstart_loop",
           "chkconfig", "chkconfig_fallback", "chkconfig_loop", "return",
           "SystemctlScanService", "systemctl_loop", "systemctl_return",
           "merge", "report", "done"}

\* C5: the scan never raises; it ends with the Skipped report exactly when the
\* merged dict is empty, which is when no parser stored a record, and with the
\* Success report holding the merged dict otherwise.
C5_SkippedIffEmpty ==
    /\ pc # "TypeError"
    /\ pc \in Labels
    /\ pc = "done" =>
          /\ (DOMAIN all_services = {}) <=>
                (\A b \in {"sysv", "upstart", "chkconfig", "systemd"} : DOMAIN produced[b] = {})
          /\ (DOMAIN all_services = {}) <=> (results = [skipped |-> TRUE, msg |-> FailMsg])
          /\ (DOMAIN all_services # {}) =>
                /\ DOMAIN results \in {{"ansible_facts"}, {"ansible_facts", "msg"}}
                /\ results.ansible_facts = [services |-> all_services]

\* C5 witness: a finished scan whose listing command ran, found nothing, and
\* ended with the Skipped report.
C5_Witness ==
    /\ pc = "done"
    /\ cmds # <<>>
    /\ results = [skipped |-> TRUE, msg |-> FailMsg]

\* C6: when the primary pattern matches no line of the first chkconfig listing
\* and the simplified pattern matches one, the check runs the listing with
\* "-l --allservices", once, before any line is parsed, and the loop parses the
\* stdout of that run.
C6_SimpleFormatReruns ==
    /\ [](Times("chkconfig -l --allservices") <= 1)
    /\ [][ (/\ pc = "chkconfig_fallback"
            /\ ~match_any_primary(split_on(stdout, "\n"))
            /\ match_any_simple(split_on(stdout, "\n"))) =>
              /\ seen = <<>> /\ produced.chkconfig = <<>>
              /\ cmds' = Append(cmds, Cmd("chkconfig -l --allservices", <<>>))
              /\ pc' = "chkconfig_loop"
              /\ stdout' = listing'
              /\ lines' = split_on(listing', "\n")
              /\ UNCHANGED <<services, seen, produced>> ]_vars

\* C6 witness: the loop about to parse a line of the "-l --allservices" run
\* that matches the primary pattern.
C6_Witness ==
    /\ pc = "chkconfig_loop"
    /\ cmds = <<Cmd("chkconfig", <<>>), Cmd("chkconfig -l --allservices", <<>>)>>
    /\ lines # <<>>
    /\ chkconfig_match(Head(lines)).matched

\* C7: in the sysvinit loop a line of at least 4 tokens stores exactly one
\* record, named by the space-join of tokens[3:], running for the marker "+"
\* and stopped for "-", with source sysv; a line of fewer than 4 tokens stores
\* nothing; either way the loop goes on.
C7_SysvLine ==
    [][ (pc = "sysvinit_loop" /\ lines # <<>>) =>
          LET t == split(Head(lines))
              n == join(<<" ">>, SubSeq(t, 4, Len(t)))
          IN  /\ pc' = "sysvinit_loop"
              /\ lines' = Tail(lines)
              /\ IF Len(t) >= 4
                 THEN /\ DOMAIN services' = (DOMAIN services) \cup {n}
                      /\ \A k \in DOMAIN services : k # n => services'[k] = services[k]
                      /\ services'[n].name = n
                      /\ services'[n].source = "sysv"
                      /\ DOMAIN services'[n] = {"name", "state", "source"}
                      /\ t[2] = <<"+">> => services'[n].state = Running
                      /\ t[2] = <<"-">> => services'[n].state = Stopped
                 ELSE services' = services ]_vars

\* C7 witness: the sysvinit loop is over after a 3-token line, which stored
\* nothing, and the line "[ - ]  my  svc", stored as "my svc", stopped.
C7_Witness ==
    /\ pc = "upstart"
    /\ listing = <<" ","["," ","+"," ","]","\n"," ","["," ","-"," ","]"," "," ","m","y"," "," ","s","v","c","\n">>
    /\ DOMAIN services = { <<"m","y"," ","s","v","c">> }
    /\ services[<<"m","y"," ","s","v","c">>] = [name |-> <<"m","y"," ","s","v","c">>, state |-> Stopped, source |-> "sysv"]

\* Whether /proc/1/comm is readable with "systemd" in it and systemctl resolves.
SystemdHost ==
    comm.readable /\ Contains(comm.text, <<"s","y","s","t","e","m","d">>) /\ "systemctl" \in bins

\* C8: the systemd backend runs its listing and stores records, all of source
\* systemd, only on a host whose /proc/1/comm is readable and names systemd and
\* where systemctl resolves, and there it does run, whatever the other
\* binaries; on any other host it returns None, runs no command, contributes
\* no record and raises nothing.
C8_SystemdAvailability ==
    /\ pc # "TypeError"
    /\ Ran("systemctl list-unit-files") => SystemdHost
    /\ DOMAIN produced.systemd # {} => SystemdHost
    /\ \A n \in DOMAIN produced.systemd : produced.systemd[n].source = "systemd"
    /\ (svc_module = 2 /\ pc # "SystemctlScanService") =>
          IF SystemdHost
          THEN /\ cmds # <<>>
               /\ cmds[Len(cmds)] = Cmd("systemctl list-unit-files", <<>>)
               /\ pc \in {"merge", "report", "done"} => svc.some
          ELSE /\ svc = None
               /\ \A n \in DOMAIN all_services : all_services[n].source # "systemd"

\* C8 witness: a finished scan on a host with systemctl as its only binary, in
\* which the systemd parser stored a record.
C8_Witness ==
    /\ pc = "done"
    /\ bins = {"systemctl"}
    /\ DOMAIN produced.systemd # {}
    /\ DOMAIN all_services = DOMAIN produced.systemd

\* C9: for a line of the final chkconfig listing that matches the primary
\* pattern, the status command is run exactly when runlevel 3 is on; with
\* runlevel 3 off the service is stored as stopped; a probed service is stored
\* as running when the exit code is 0 and as stopped when it is not and stderr
\* has no privilege marker; every record of the dict has source sysv and the
\* state running or stopped.
C9_ProbeOnlyRunlevel3 ==
    [][ (pc = "chkconfig_loop" /\ lines # <<>> /\ chkconfig_match(Head(lines)).matched) =>
          LET m == chkconfig_match(Head(lines))
              n == m.service
              on == m.rl[4] = <<"o","n">>
          IN  /\ on <=> cmds' = Append(cmds, Cmd("service status", n))
              /\ ~on => /\ cmds' = cmds
                        /\ services'[n] = [name |-> n, state |-> Stopped, source |-> "sysv"]
              /\ (on /\ rc' = 0) =>
                    services'[n] = [name |-> n, state |-> Running, source |-> "sysv"]
              /\ (on /\ rc' # 0 /\ ~HasMarker(stderr')) =>
                    services'[n] = [name |-> n, state |-> Stopped, source |-> "sysv"]
              /\ \A k \in DOMAIN services' :
                    /\ services'[k].source = "sysv"
                    /\ services'[k].state \in {Running, Stopped} ]_vars

\* C9 witness: the loop has stored one service as running after a probe that
\* exited 0 and meets a line of the same listing with runlevel 3 off.
C9_Witness ==
    /\ pc = "chkconfig_loop"
    /\ lines # <<>>
    /\ chkconfig_match(Head(lines)).matched
    /\ chkconfig_match(Head(lines)).rl[4] = <<"o","f","f">>
    /\ \E i \in DOMAIN seen : seen[i].probed /\ seen[i].rc = 0
    /\ \E n \in DOMAIN services : services[n].state = Running

\* The chkconfig listing commands.
ListingCmds == {"chkconfig", "chkconfig -l --allservices", "chkconfig --list"}

\* C10: the listing is run again only when the primary pattern matches no line
\* of the first output: with "-l --allservices" when the simplified pattern
\* matches a line, else with "--list" when the first stderr contains "--list",
\* else not at all; a scan runs the listing at most twice and never both
\* variants.
C10_ListingInvocations ==
    /\ [](/\ Cardinality({i \in DOMAIN cmds : cmds[i].cmd \in ListingCmds}) <= 2
          /\ Times("chkconfig") <= 1
          /\ ~(Ran("chkconfig -l --allservices") /\ Ran("chkconfig --list")))
    /\ [][ pc # "chkconfig_fallback" =>
              \A c \in {"chkconfig -l --allservices", "chkconfig --list"} :
                  {i \in DOMAIN cmds' : cmds'[i].cmd = c} = {i \in DOMAIN cmds : cmds[i].cmd = c} ]_vars
    /\ [][ pc = "chkconfig_fallback" =>
              LET first == split_on(stdout, "\n")
                  primary == match_any_primary(first)
                  simple == match_any_simple(first)
                  usage == Contains(stderr, <<"-","-","l","i","s","t">>)
              IN  /\ cmds = <<Cmd("chkconfig", <<>>)>>
                  /\ primary => cmds' = cmds
                  /\ (~primary /\ simple) =>
                        cmds' = Append(cmds, Cmd("chkconfig -l --allservices", <<>>))
                  /\ (~primary /\ ~simple /\ usage) =>
                        cmds' = Append(cmds, Cmd("chkconfig --list", <<>>))
                  /\ (~primary /\ ~simple /\ ~usage) => cmds' = cmds ]_vars

\* C10 witness: the loop starts after a first listing that fit no pattern and
\* a second run with "--list".
C10_Witness ==
    /\ pc = "chkconfig_loop"
    /\ cmds = <<Cmd("chkconfig", <<>>), Cmd("chkconfig --list", <<>>)>>
    /\ seen = <<>>

====
